---- MODULE Spec2Model ----
(***************************************************************************)
(* Atestado de Matricula (Criciuma): field normalisation                   *)
(* (pdf_atestado.py), record aggregation and loading (app.py) and the      *)
(* roster renderer (pdf_lista_turmas.py).                                  *)
(*                                                                         *)
(* Python strings are sequences of one-character strings, so that strip,   *)
(* regular expressions, Decimal parsing and lexicographic order are        *)
(* computed character by character.                                        *)
(***************************************************************************)
EXTENDS Integers, Sequences, FiniteSets, TLC

VARIABLES raw, out, prev, op,      \* normaliser: argument, result, stored id, last call
          df_aluno, at, cert,      \* aggregator: one student's rows, AtestadoData, certificate texts
          df, escola, pdf,         \* roster: caller's DataFrame, target school, returned document
          src_df, loaded,          \* loader: row set read from the source, outcome of the load
          usuarios_csv,            \* session: the credentials file
          session_state,           \* session: st.session_state
          page,                    \* session: what the last run of main() showed
          auth                     \* session: the last auth_user call, arguments and outcome

vars == <<raw, out, prev, op, df_aluno, at, cert, df, escola, pdf, src_df, loaded,
          usuarios_csv, session_state, page, auth>>

(* ------------------------------ bounds -------------------------------- *)
MaxTokens == 4
MaxDateTokens == 2
MaxAlunoRows == 3
MaxRosterRows == 3
MaxMissing == 2
MaxSourceRows == 2
MaxUsers == 2

(* ---------------------------- characters ------------------------------ *)
DigitChars == {"0", "1", "2", "3", "4", "5", "6", "7", "8", "9"}

IsDigit(c) == c \in DigitChars

IsSpace(c) == c = " "

DigitVal(c) ==
  CASE c = "0" -> 0 [] c = "1" -> 1 [] c = "2" -> 2 [] c = "3" -> 3
    [] c = "4" -> 4 [] c = "5" -> 5 [] c = "6" -> 6 [] c = "7" -> 7
    [] c = "8" -> 8 [] c = "9" -> 9 [] OTHER -> 0

DigitChar(n) ==
  CASE n = 0 -> "0" [] n = 1 -> "1" [] n = 2 -> "2" [] n = 3 -> "3"
    [] n = 4 -> "4" [] n = 5 -> "5" [] n = 6 -> "6" [] n = 7 -> "7"
    [] n = 8 -> "8" [] OTHER -> "9"

\* code point of the characters the model uses (order of str.__lt__)
Ord(c) ==
  CASE c = " " -> 32 [] c = "+" -> 43 [] c = "," -> 44 [] c = "-" -> 45
    [] c = "." -> 46 [] c = "/" -> 47
    [] c = "A" -> 65 [] c = "B" -> 66 [] c = "C" -> 67 [] c = "E" -> 69
    [] c = "M" -> 77 [] c = "N" -> 78 [] c = "O" -> 79 [] c = "T" -> 84
    [] c = "a" -> 97 [] c = "b" -> 98 [] c = "c" -> 99 [] c = "e" -> 101
    [] c = "f" -> 102 [] c = "i" -> 105 [] c = "m" -> 109 [] c = "n" -> 110
    [] c = "o" -> 111 [] c = "r" -> 114 [] c = "t" -> 116 [] c = "u" -> 117
    [] OTHER -> 48 + DigitVal(c)

LowerChar(c) ==
  CASE c = "A" -> "a" [] c = "B" -> "b" [] c = "C" -> "c" [] c = "E" -> "e"
    [] c = "M" -> "m" [] c = "N" -> "n" [] c = "O" -> "o" [] c = "T" -> "t"
    [] OTHER -> c

UpperChar(c) ==
  CASE c = "a" -> "A" [] c = "b" -> "B" [] c = "c" -> "C" [] c = "e" -> "E"
    [] c = "m" -> "M" [] c = "n" -> "N" [] c = "o" -> "O" [] c = "t" -> "T"
    [] c = "f" -> "F" [] c = "i" -> "I" [] c = "r" -> "R" [] c = "u" -> "U"
    [] c = "s" -> "S"
    [] OTHER -> c

(* ------------------------------ strings ------------------------------- *)
Lower(s) == [i \in 1..Len(s) |-> LowerChar(s[i])]

Upper(s) == [i \in 1..Len(s) |-> UpperChar(s[i])]

RECURSIVE LStrip(_)
LStrip(s) == IF s = <<>> \/ ~IsSpace(Head(s)) THEN s ELSE LStrip(Tail(s))

RECURSIVE RStrip(_)
RStrip(s) ==
  IF s = <<>> \/ ~IsSpace(s[Len(s)]) THEN s ELSE RStrip(SubSeq(s, 1, Len(s) - 1))

Strip(s) == RStrip(LStrip(s))

AllDigits(s) == \A i \in 1..Len(s) : IsDigit(s[i])

HasDigit(s) == \E i \in 1..Len(s) : IsDigit(s[i])

\* index of the first occurrence of a character of cs in s, 0 if none
FirstOf(s, cs) ==
  IF \E i \in 1..Len(s) : s[i] \in cs
    THEN CHOOSE i \in 1..Len(s) : s[i] \in cs /\ \A j \in 1..(i - 1) : s[j] \notin cs
    ELSE 0

\* s < t in Python's string order
StrLess(s, t) ==
  \/ Len(s) < Len(t) /\ SubSeq(t, 1, Len(s)) = s
  \/ \E i \in 1..Len(s) :
       /\ i <= Len(t)
       /\ SubSeq(s, 1, i - 1) = SubSeq(t, 1, i - 1)
       /\ Ord(s[i]) < Ord(t[i])

RECURSIVE StripLeadingZeros(_)
StripLeadingZeros(ds) ==
  IF ds # <<>> /\ Head(ds) = "0" THEN StripLeadingZeros(Tail(ds)) ELSE ds

\* value of a digit string, saturated at cap
RECURSIVE DigitsValueFrom(_, _, _)
DigitsValueFrom(ds, acc, cap) ==
  IF ds = <<>> THEN acc
  ELSE IF acc * 10 + DigitVal(Head(ds)) >= cap THEN cap
  ELSE DigitsValueFrom(Tail(ds), acc * 10 + DigitVal(Head(ds)), cap)

DigitsValue(ds, cap) == DigitsValueFrom(ds, 0, cap)

RECURSIVE NatStr(_)
NatStr(n) == IF n < 10 THEN <<DigitChar(n)>> ELSE NatStr(n \div 10) \o <<DigitChar(n % 10)>>

Zeros(k) == [i \in 1..k |-> "0"]

(* --------------------------- Python values ---------------------------- *)
\* a cell or argument: None, float nan, float inf, int, float with one
\* fractional digit, or str
PyNone == [kind |-> "none", s |-> <<>>, n |-> 0, t |-> 0]

PyNaN == [kind |-> "nan", s |-> <<>>, n |-> 0, t |-> 0]

PyInf == [kind |-> "inf", s |-> <<>>, n |-> 0, t |-> 0]

PyInt(n) == [kind |-> "int", s |-> <<>>, n |-> n, t |-> 0]

PyFloat(n, t) == [kind |-> "float", s |-> <<>>, n |-> n, t |-> t]

PyS(s) == [kind |-> "str", s |-> s, n |-> 0, t |-> 0]

\* str(value)
PyStr(v) ==
  CASE v.kind = "none" -> <<"N", "o", "n", "e">>
    [] v.kind = "nan" -> <<"n", "a", "n">>
    [] v.kind = "inf" -> <<"i", "n", "f">>
    [] v.kind = "int" -> IF v.n < 0 THEN <<"-">> \o NatStr(-v.n) ELSE NatStr(v.n)
    [] v.kind = "float" -> NatStr(v.n) \o <<".">> \o <<DigitChar(v.t)>>
    [] OTHER -> v.s

\* pandas.notna(value)
NotNa(v) == v.kind \notin {"none", "nan"}

Placeholders == {<<"n", "a", "n">>, <<"n", "o", "n", "e">>}

(* a function result: the returned string, or the exception that left it *)
Ret(s) == [exc |-> "", val |-> s]

Raise(e) == [exc |-> e, val |-> <<>>]

\* a DataFrame: None, or columns and rows; a row keeps its index label and
\* one cell per column
NoneDf == [none |-> TRUE, cols |-> {}, rows |-> <<>>]

DataFrame(cols, rows) == [none |-> FALSE, cols |-> cols, rows |-> rows]

(* ------------------ pdf_atestado.py: normalize_intlike ---------------- *)
\* re.fullmatch(r"\d+\.0", s)
FullMatchIntDotZero(s) ==
  /\ Len(s) >= 3
  /\ s[Len(s) - 1] = "." /\ s[Len(s)] = "0"
  /\ AllDigits(SubSeq(s, 1, Len(s) - 2))

\* Decimal.__new__ refuses exponents of more than 18 significant digits
DecimalMaxExpDigits == 18

\* sys.get_int_max_str_digits(): str(int) raises ValueError beyond it
IntMaxStrDigits == 4300

\* an integer of 10^12 digits or more cannot be allocated: MemoryError
MemoryErrorExpDigits == 13

\* str(int(Decimal(s))) for a string s that holds an exponent marker
DecimalToIntStr(s) ==
  LET p     == FirstOf(s, {"e", "E"})
      man   == SubSeq(s, 1, p - 1)
      ex    == SubSeq(s, p + 1, Len(s))
      msig  == man # <<>> /\ Head(man) \in {"+", "-"}
      neg   == man # <<>> /\ Head(man) = "-"
      mbody == IF msig THEN Tail(man) ELSE man
      dot   == FirstOf(mbody, {"."})
      ip    == IF dot = 0 THEN mbody ELSE SubSeq(mbody, 1, dot - 1)
      fp    == IF dot = 0 THEN <<>> ELSE SubSeq(mbody, dot + 1, Len(mbody))
      esig  == ex # <<>> /\ Head(ex) \in {"+", "-"}
      eneg  == ex # <<>> /\ Head(ex) = "-"
      ebody == IF esig THEN Tail(ex) ELSE ex
      esd   == Len(StripLeadingZeros(ebody))
      valid == /\ AllDigits(ip) /\ AllDigits(fp) /\ Len(ip) + Len(fp) > 0
               /\ ebody # <<>> /\ AllDigits(ebody)
               /\ esd <= DecimalMaxExpDigits
      coef  == StripLeadingZeros(ip \o fp)
      eabs  == DigitsValue(ebody, IntMaxStrDigits + Len(s))
      shift == (IF eneg THEN -eabs ELSE eabs) - Len(fp)
      kept  == IF -shift >= Len(coef) THEN <<>>
               ELSE StripLeadingZeros(SubSeq(coef, 1, Len(coef) + shift))
      sign  == IF neg THEN <<"-">> ELSE <<>>
  IN  IF ~valid THEN Raise("InvalidOperation")
      ELSE IF coef = <<>> THEN Ret(<<"0">>)
      ELSE IF shift < 0 THEN (IF kept = <<>> THEN Ret(<<"0">>) ELSE Ret(sign \o kept))
      ELSE IF esd >= MemoryErrorExpDigits THEN Raise("MemoryError")
      ELSE IF Len(coef) + shift > IntMaxStrDigits THEN Raise("ValueError")
      ELSE Ret(sign \o coef \o Zeros(shift))

\* except (InvalidOperation, ValueError)
NormalizeCaught == {"InvalidOperation", "ValueError"}

\* mutant: the non-digit characters are not removed
DigitsOnly_keep(s) == s

\* re.sub(r"\D", "", s)
DigitsOnly(s) == SelectSeq(s, IsDigit)

normalize_intlike(value) ==
  IF value.kind = "none" THEN Ret(<<>>)
  ELSE
    LET s == Strip(PyStr(value))
        d == DecimalToIntStr(s)
        digits == DigitsOnly(s)
    IN  IF s = <<>> \/ Lower(s) \in Placeholders THEN Ret(<<>>)
        ELSE IF FullMatchIntDotZero(s) THEN Ret(SubSeq(s, 1, Len(s) - 2))
        ELSE IF FirstOf(Lower(s), {"e"}) # 0 /\ d.exc = "" THEN d
        ELSE IF FirstOf(Lower(s), {"e"}) # 0 /\ d.exc \notin NormalizeCaught THEN d
        ELSE Ret(IF digits # <<>> THEN digits ELSE s)

(* ----------------- pdf_atestado.py: excel_serial_to_iso --------------- *)
IsLeap(y) == y % 4 = 0 /\ (y % 100 # 0 \/ y % 400 = 0)

DaysInMonth(y, m) ==
  IF m = 2 THEN (IF IsLeap(y) THEN 29 ELSE 28)
  ELSE IF m \in {4, 6, 9, 11} THEN 30 ELSE 31

RECURSIVE DaysBeforeMonth(_, _)
DaysBeforeMonth(y, m) ==
  IF m = 1 THEN 0 ELSE DaysBeforeMonth(y, m - 1) + DaysInMonth(y, m - 1)

DaysBeforeYear(y) ==
  (y - 1) * 365 + ((y - 1) \div 4) - ((y - 1) \div 100) + ((y - 1) \div 400)

\* date.toordinal(): 0001-01-01 is day 1
ToOrdinal(y, m, d) == DaysBeforeYear(y) + DaysBeforeMonth(y, m) + d

\* date.fromordinal()
FromOrdinal(n) ==
  LET n0   == n - 1
      n400 == n0 \div 146097
      r400 == n0 % 146097
      n100 == r400 \div 36524
      r100 == r400 % 36524
      n4   == r100 \div 1461
      r4   == r100 % 1461
      n1   == r4 \div 365
      r1   == r4 % 365
      y0   == n400 * 400 + n100 * 100 + n4 * 4 + n1 + 1
  IN  IF n1 = 4 \/ n100 = 4 THEN [y |-> y0 - 1, m |-> 12, d |-> 31]
      ELSE LET m == CHOOSE k \in 1..12 :
                      /\ DaysBeforeMonth(y0, k) <= r1
                      /\ r1 < DaysBeforeMonth(y0, k) + DaysInMonth(y0, k)
           IN  [y |-> y0, m |-> m, d |-> r1 - DaysBeforeMonth(y0, m) + 1]

\* mutant: the 1900 date system taken literally, day 1 = 1900-01-01
EpochOrdinal_1900 == ToOrdinal(1899, 12, 31)

\* datetime(1899, 12, 30)
EpochOrdinal == ToOrdinal(1899, 12, 30)

\* datetime.max is 9999-12-31
MaxOrdinal == ToOrdinal(9999, 12, 31)

\* serial >= 20000
SerialFloor == 20000

Pad(n, w) == LET ds == NatStr(n) IN Zeros(w - Len(ds)) \o ds

\* mutant: day, month and year written without separators
StrftimeIso_dmy(dt) == Pad(dt.d, 2) \o Pad(dt.m, 2) \o Pad(dt.y, 4)

\* dt.strftime("%Y-%m-%d")
StrftimeIso(dt) == Pad(dt.y, 4) \o <<"-">> \o Pad(dt.m, 2) \o <<"-">> \o Pad(dt.d, 2)

\* re.fullmatch(r"\d+(\.\d+)?", s)
FullMatchNumber(s) ==
  LET dot == FirstOf(s, {"."})
  IN  IF dot = 0 THEN s # <<>> /\ AllDigits(s)
      ELSE /\ dot > 1 /\ dot < Len(s)
           /\ AllDigits(SubSeq(s, 1, dot - 1))
           /\ AllDigits(SubSeq(s, dot + 1, Len(s)))

\* the float() the try block computes: none, infinite, or its integer part
\* (saturated just above the last serial a datetime can hold)
SerialOf(value, s) ==
  LET cap == MaxOrdinal
      dot == FirstOf(s, {"."})
      ip  == IF dot = 0 THEN s ELSE SubSeq(s, 1, dot - 1)
  IN  CASE value.kind = "inf" -> [some |-> TRUE, inf |-> TRUE, days |-> 0]
        [] value.kind \in {"int", "float"} ->
             [some |-> TRUE, inf |-> FALSE, days |-> IF value.n > cap THEN cap ELSE value.n]
        [] value.kind = "str" /\ FullMatchNumber(s) ->
             [some |-> TRUE, inf |-> FALSE, days |-> DigitsValue(ip, cap)]
        [] OTHER -> [some |-> FALSE, inf |-> FALSE, days |-> 0]

\* (base + timedelta(days=int(serial))).strftime("%Y-%m-%d")
SerialToDate(serial) ==
  IF serial.inf THEN Raise("OverflowError")
  ELSE IF EpochOrdinal + serial.days > MaxOrdinal THEN Raise("OverflowError")
  ELSE Ret(StrftimeIso(FromOrdinal(EpochOrdinal + serial.days)))

\* except Exception
ExcelCaught == {"OverflowError", "ValueError", "TypeError"}

excel_serial_to_iso(value) ==
  IF value.kind = "none" THEN Ret(<<>>)
  ELSE
    LET s == Strip(PyStr(value))
        serial == SerialOf(value, s)
        r == SerialToDate(serial)
    IN  IF s = <<>> \/ Lower(s) \in Placeholders THEN Ret(<<>>)
        ELSE IF serial.some /\ (serial.inf \/ serial.days >= SerialFloor)
          THEN (IF r.exc = "" THEN r
                ELSE IF r.exc \in ExcelCaught THEN Ret(s)
                ELSE r)
        ELSE Ret(s)

(* ------------------- pdf_atestado.py: format_date_br ------------------ *)
\* re.fullmatch(r"\d{4}-\d{2}-\d{2}", s)
FullMatchIsoDate(s) ==
  /\ Len(s) = 10
  /\ s[5] = "-" /\ s[8] = "-"
  /\ AllDigits(SubSeq(s, 1, 4)) /\ AllDigits(SubSeq(s, 6, 7)) /\ AllDigits(SubSeq(s, 9, 10))

format_date_br(date_value) ==
  LET r == excel_serial_to_iso(date_value)
      s == Strip(r.val)
  IN  IF r.exc # "" THEN r
      ELSE IF FullMatchIsoDate(s)
        THEN Ret(SubSeq(s, 9, 10) \o <<"/">> \o SubSeq(s, 6, 7) \o <<"/">> \o SubSeq(s, 1, 4))
      ELSE Ret(s)

(* ===================== field normaliser: state machine ================ *)
RECURSIVE Concats(_, _)
Concats(T, k) ==
  IF k = 0 THEN {<<>>}
  ELSE LET P == Concats(T, k - 1) IN P \cup {p \o tk : p \in P, tk \in T}

\* pieces of raw identifiers as spreadsheet exports and API rows carry them
IdTokens ==
  { <<"1">>, <<"2", "0">>, <<".", "0">>, <<"e">>, <<"E">>,
    <<"-">>, <<" ">>, <<"a">>, <<"n", "a", "N">>,
    <<"9", "9", "9", "9", "9", "9", "9", "9", "9", "9", "9", "9", "9", "9", "9">> }

\* pieces of raw enrolment dates
DateTokens ==
  { <<"4", "5", "2", "9", "2">>, <<"1", "9", "9", "9", "9">>, <<"2", "0", "0", "0", "0">>,
    <<"2", "9", "5", "8", "4", "6", "5">>, <<"2", "9", "5", "8", "4", "6", "6">>,
    <<".", "5">>, <<" ">>, <<"-">>,
    <<"2", "0", "2", "4", "-", "0", "1", "-", "0", "1">>,
    <<"1", "0", "/", "0", "1", "/", "2", "0", "2", "4">>,
    <<"N", "o", "n", "e">> }

NumberInputs ==
  {PyNone, PyNaN, PyInf}
    \cup {PyInt(n) : n \in {-5, 0, 123, 19999, 20000, 45291, 45292, 2958465, 2958466}}
    \cup {PyFloat(n, f) : n \in {123, 19999, 45292, 2958466}, f \in {0, 5}}

RawInputs ==
  NumberInputs
    \cup {PyS(s) : s \in Concats(IdTokens, MaxTokens)}
    \cup {PyS(s) : s \in Concats(DateTokens, MaxDateTokens)}

NoResult == Ret(<<>>)

\* the other components at rest
IdleAggregator == df_aluno = <<>> /\ at = <<>> /\ cert = <<>>

IdleRoster == df = NoneDf /\ escola = <<>> /\ pdf = <<>>

IdleLoader == src_df = NoneDf /\ loaded = <<>>

\* a session_state without keys
EmptySession == [k \in {} |-> FALSE]

NoPage == [view |-> "none", usuario |-> <<>>, escola |-> <<>>, is_admin |-> FALSE]

NoAuth == [called |-> FALSE, usuario |-> <<>>, senha |-> <<>>, success |-> FALSE, row |-> 0]

IdleSession ==
  /\ usuarios_csv = [exists |-> FALSE, rows |-> <<>>]
  /\ session_state = EmptySession /\ page = NoPage /\ auth = NoAuth

InitNorm ==
  /\ raw \in RawInputs
  /\ out = NoResult /\ prev = <<>> /\ op = "start"
  /\ IdleAggregator /\ IdleRoster /\ IdleLoader /\ IdleSession

\* ID_norm = normalize_intlike(raw)   (app.py prepare_matriculas_df / load_matriculas)
NormalizeIntlike ==
  /\ op = "start"
  /\ out' = normalize_intlike(raw)
  /\ op' = "normalize_intlike"
  /\ UNCHANGED <<raw, prev>>

\* the certificate prints normalize_intlike(data.id_aluno) of the stored ID_norm
PrintIntlike ==
  /\ op = "normalize_intlike" /\ out.exc = ""
  /\ prev' = out.val
  /\ out' = normalize_intlike(PyS(out.val))
  /\ op' = "printed"
  /\ UNCHANGED raw

ExcelSerialToIso ==
  /\ op = "start"
  /\ out' = excel_serial_to_iso(raw)
  /\ op' = "excel_serial_to_iso"
  /\ UNCHANGED <<raw, prev>>

\* format_date_br(data.data_matricula): excel_serial_to_iso of the date that
\* pick_data_matricula already passed through excel_serial_to_iso
ExcelSerialToIsoAgain ==
  /\ op = "excel_serial_to_iso" /\ out.exc = ""
  /\ prev' = out.val
  /\ out' = excel_serial_to_iso(PyS(out.val))
  /\ op' = "iso_again"
  /\ UNCHANGED raw

FormatDateBr ==
  /\ op = "start"
  /\ out' = format_date_br(raw)
  /\ op' = "format_date_br"
  /\ UNCHANGED <<raw, prev>>

NextNorm ==
  /\ (NormalizeIntlike \/ PrintIntlike \/ ExcelSerialToIso \/ ExcelSerialToIsoAgain
        \/ FormatDateBr)
  /\ UNCHANGED <<df_aluno, at, cert, df, escola, pdf, src_df, loaded>>
  /\ UNCHANGED <<usuarios_csv, session_state, page, auth>>

SpecNorm == InitNorm /\ [][NextNorm]_vars

(* ====================== app.py: record aggregator ===================== *)
\* series.dropna().tolist()
RECURSIVE DropNa(_)
DropNa(series) ==
  IF series = <<>> THEN <<>>
  ELSE IF NotNa(Head(series)) THEN <<Head(series)>> \o DropNa(Tail(series))
  ELSE DropNa(Tail(series))

RECURSIVE safe_first(_)
safe_first(series) ==
  IF series = <<>> THEN <<>>
  ELSE IF NotNa(Head(series)) /\ Strip(PyStr(Head(series))) # <<>>
    THEN Strip(PyStr(Head(series)))
  ELSE safe_first(Tail(series))

\* [str(v).strip() for v in series.dropna().tolist() if str(v).strip()]
RECURSIVE StrippedNonEmpty(_)
StrippedNonEmpty(values) ==
  IF values = <<>> THEN <<>>
  ELSE IF Strip(PyStr(Head(values))) # <<>>
    THEN <<Strip(PyStr(Head(values)))>> \o StrippedNonEmpty(Tail(values))
  ELSE StrippedNonEmpty(Tail(values))

\* set(vals)
SetOf(xs) == {xs[i] : i \in 1..Len(xs)}

\* min() of a non-empty set of strings
MinStr(S) == CHOOSE x \in S : \A y \in S \ {x} : StrLess(x, y)

\* sorted() of a set of strings
RECURSIVE Sorted(_)
Sorted(S) == IF S = {} THEN <<>> ELSE <<MinStr(S)>> \o Sorted(S \ {MinStr(S)})

CommaSpace == <<",", " ">>

\* sep.join(parts)
RECURSIVE Join(_, _)
Join(sep, parts) ==
  IF parts = <<>> THEN <<>>
  ELSE IF Len(parts) = 1 THEN Head(parts)
  ELSE Head(parts) \o sep \o Join(sep, Tail(parts))

\* mutant: the values are not deduplicated
agg_unique_dup(series) == Join(CommaSpace, StrippedNonEmpty(DropNa(series)))

agg_unique(series) ==
  LET vals == StrippedNonEmpty(DropNa(series))
      uniq == Sorted(SetOf(vals))
  IN  Join(CommaSpace, uniq)

\* [iso for v in raws if (iso := excel_serial_to_iso(v))]
RECURSIVE IsoDates(_)
IsoDates(raws) ==
  IF raws = <<>> THEN <<>>
  ELSE LET iso == excel_serial_to_iso(Head(raws)).val
       IN  IF iso # <<>> THEN <<iso>> \o IsoDates(Tail(raws)) ELSE IsoDates(Tail(raws))

pick_data_matricula(column) ==
  LET raws == DropNa(column)
      iso_dates == IsoDates(raws)
  IN  IF raws = <<>> THEN <<>>
      ELSE IF iso_dates = <<>> THEN PyStr(raws[1])
      ELSE MinStr(SetOf(iso_dates))

\* df_aluno[col]
Column(rows, col) == [i \in 1..Len(rows) |-> rows[i][col]]

build_atestado_data(rows, ano, school) ==
  [ ano            |-> PyStr(ano),
    escola         |-> school,
    nome           |-> safe_first(Column(rows, "Nome")),
    nome_mae       |-> safe_first(Column(rows, "Nome da mae")),
    turma          |-> agg_unique(Column(rows, "Turma")),
    serie          |-> agg_unique(Column(rows, "Serie")),
    curso          |-> agg_unique(Column(rows, "Curso")),
    turno          |-> agg_unique(Column(rows, "Turno")),
    data_matricula |-> pick_data_matricula(Column(rows, "Data da Matricula")),
    id_aluno       |-> safe_first(Column(rows, "ID_norm")),
    inep_aluno     |-> safe_first(Column(rows, "INEP_norm")) ]

\* generate_atestado_pdf: the substitutions of the body paragraph and the three
\* label/value lines
CertificateTexts(data) ==
  [ nome_up |-> Upper(Strip(data.nome)),
    mae_up  |-> Upper(Strip(data.nome_mae)),
    ano     |-> data.ano,
    turma   |-> data.turma,
    serie   |-> data.serie,
    curso   |-> data.curso,
    turno   |-> data.turno,
    data_matricula |-> format_date_br(PyS(data.data_matricula)).val,
    id_aluno       |-> normalize_intlike(PyS(data.id_aluno)).val,
    inep_aluno     |-> normalize_intlike(PyS(data.inep_aluno)).val ]

\* LAYOUT["right_block_y_from_top_mm"], LAYOUT["right_block_line_gap_mm"]
RightBlockTop == 14

RightBlockGap == 5

\* (school_meta.get(key, "") or "").strip(); an absent key and None are PyNone
MetaGet(school_meta, key) ==
  IF school_meta[key].kind = "none" THEN <<>> ELSE Strip(PyStr(school_meta[key]))

\* c.drawRightString(right_x, right_y, f"{label}: {text}"), y in mm from the top
RightString(label, text, y) == [label |-> label, text |-> text, y |-> y]

\* generate_atestado_pdf: the lines drawn in the right-aligned block, right_y
\* going down one gap after each drawn line
RightBlock(data, school_meta) ==
  LET fone  == MetaGet(school_meta, "Fone")
      inep  == MetaGet(school_meta, "INEP")
      email == MetaGet(school_meta, "Email")
      l1 == IF fone # <<>> THEN <<RightString("Fone", fone, RightBlockTop)>> ELSE <<>>
      y1 == RightBlockTop + RightBlockGap * Len(l1)
      l2 == <<RightString("Ano Letivo", data.ano, y1)>>
      y2 == y1 + RightBlockGap
      l3 == IF inep # <<>> THEN <<RightString("INEP", inep, y2)>> ELSE <<>>
      y3 == y2 + RightBlockGap * Len(l3)
      l4 == IF email # <<>> THEN <<RightString("E-mail", email, y3)>> ELSE <<>>
  IN  l1 \o l2 \o l3 \o l4

(* --------------------- aggregator: state machine ---------------------- *)
\* the columns build_atestado_data reads (accents dropped from the names)
AlunoCols ==
  {"Nome", "Nome da mae", "Turma", "Serie", "Curso", "Turno",
   "Data da Matricula", "ID_norm", "INEP_norm"}

AlunoRow(nome, mae, turma, serie, curso, turno, data, id) ==
  [c \in AlunoCols |->
     CASE c = "Nome" -> nome [] c = "Nome da mae" -> mae [] c = "Turma" -> turma
       [] c = "Serie" -> serie [] c = "Curso" -> curso [] c = "Turno" -> turno
       [] c = "Data da Matricula" -> data [] c = "ID_norm" -> PyS(id)
       [] OTHER -> PyS(<<"2", "0">>)]

\* enrolment rows of one student, as the CSV and the API deliver them
AlunoRowPool ==
  { AlunoRow(PyS(<<"A", "n", "a">>), PyS(<<"E", "b", "a">>), PyS(<<"A">>), PyInt(1),
             PyS(<<"E", "F">>), PyS(<<"M">>),
             PyS(<<"2", "0", "2", "4", "-", "0", "3", "-", "1", "0">>), <<"1">>),
    AlunoRow(PyS(<<" ", "A", "n", "a", " ">>), PyNaN, PyS(<<"B">>), PyS(<<"1">>),
             PyS(<<"E", "F">>), PyS(<<"T">>),
             PyS(<<"2", "0", "2", "4", "-", "0", "1", "-", "0", "5">>), <<"1">>),
    AlunoRow(PyNaN, PyS(<<>>), PyS(<<" ", "A">>), PyInt(2),
             PyS(<<"E", "F">>), PyNaN, PyInt(45292), <<"1">>),
    AlunoRow(PyS(<<>>), PyS(<<"E", "b", "a", " ">>), PyS(<<>>), PyNaN,
             PyS(<<" ">>), PyS(<<"M">>),
             PyS(<<"1", "0", "/", "0", "1", "/", "2", "0", "2", "4">>), <<>>),
    AlunoRow(PyS(<<"n", "a", "n">>), PyNone, PyNaN, PyS(<<"1">>),
             PyS(<<"N", "o", "n", "e">>), PyS(<<"M">>), PyNaN, <<"1">>),
    AlunoRow(PyS(<<"B", "i", "a">>), PyS(<<"A", "n", "a">>), PyS(<<"A">>), PyS(<<"2">>),
             PyS(<<"E", "M">>), PyS(<<"T">>), PyS(<<" ">>), <<"a">>),
    AlunoRow(PyNone, PyS(<<"E", "b", "a">>), PyS(<<"C">>), PyInt(1),
             PyS(<<"E", "F">>), PyS(<<"N">>), PyS(<<"a", "b">>), <<"1">>),
    AlunoRow(PyS(<<"A", "n", "a">>), PyS(<<"E", "b", "a">>), PyS(<<"B">>), PyInt(1),
             PyS(<<"E", "F">>), PyS(<<"M">>), PyFloat(45291, 5), <<"1">>) }

RECURSIVE SeqsUpTo(_, _)
SeqsUpTo(S, k) ==
  IF k = 0 THEN {<<>>}
  ELSE LET P == SeqsUpTo(S, k - 1) IN P \cup {Append(p, x) : p \in P, x \in S}

NoAtestado == <<>>

InitAgg ==
  /\ df_aluno \in SeqsUpTo(AlunoRowPool, MaxAlunoRows)
  /\ at = NoAtestado /\ cert = <<>>
  /\ raw = PyNone /\ out = NoResult /\ prev = <<>> /\ op = "aggregator"
  /\ IdleRoster /\ IdleLoader /\ IdleSession

\* main(): at = build_atestado_data(df_aluno, ano_sel, escola) once the
\* student's rows are loaded (an empty df_aluno stops the page before)
BuildAtestadoData ==
  /\ df_aluno # <<>> /\ at = NoAtestado
  /\ \E ano \in {PyInt(2024), PyS(<<"2", "0", "2", "4">>), PyS(<<" ">>)} :
       at' = <<build_atestado_data(df_aluno, ano, <<"E", "M", "E", "F">>)>>
  /\ UNCHANGED <<df_aluno, cert>>

\* the school_meta dictionaries a caller may pass (None is the empty one)
MetaValues == {PyNone, PyS(<<" ">>), PyS(<<"3", " ">>)}

SchoolMetas == [{"Fone", "INEP", "Email"} -> MetaValues]

\* main(): generate_atestado_pdf(data=at, ...); the certificate is the texts
\* of the body, then the school_meta passed and the right-aligned block
GenerateAtestadoPdf ==
  /\ at # NoAtestado /\ cert = <<>>
  /\ \E school_meta \in SchoolMetas :
       cert' = <<CertificateTexts(at[1]),
                 [school_meta |-> school_meta, right_block |-> RightBlock(at[1], school_meta)]>>
  /\ UNCHANGED <<df_aluno, at>>

NextAgg ==
  /\ (BuildAtestadoData \/ GenerateAtestadoPdf)
  /\ UNCHANGED <<raw, out, prev, op, df, escola, pdf, src_df, loaded>>
  /\ UNCHANGED <<usuarios_csv, session_state, page, auth>>

SpecAgg == InitAgg /\ [][NextAgg]_vars

(* ================ pdf_lista_turmas.py: roster renderer ================ *)
\* _safe_str(v)
safe_str(v) == IF v.kind = "none" THEN <<>> ELSE Strip(PyStr(v))

\* _first_non_empty(series)
RECURSIVE first_non_empty(_)
first_non_empty(series) ==
  IF series = <<>> THEN <<>>
  ELSE IF NotNa(Head(series)) /\ safe_str(Head(series)) # <<>> THEN safe_str(Head(series))
  ELSE first_non_empty(Tail(series))

\* df[col] as a sequence
Cells(d, col) == [i \in 1..Len(d.rows) |-> d.rows[i].cell[col]]

\* the rows with the cell of newcol set from values, row by row
RECURSIVE SetCells(_, _, _)
SetCells(rows, newcol, values) ==
  IF rows = <<>> THEN <<>>
  ELSE <<[Head(rows) EXCEPT !.cell = (newcol :> Head(values)) @@ @]>>
         \o SetCells(Tail(rows), newcol, Tail(values))

\* df[newcol] = values (one value per row)
WithColumn(d, newcol, values) ==
  [d EXCEPT !.cols = @ \cup {newcol}, !.rows = SetCells(@, newcol, values)]

\* [normalize_intlike(v) for v in series]
RECURSIVE MapNormalize(_)
MapNormalize(series) ==
  IF series = <<>> THEN <<>>
  ELSE <<normalize_intlike(Head(series))>> \o MapNormalize(Tail(series))

\* df[newcol] = df[srccol].apply(normalize_intlike): the first exception of
\* normalize_intlike leaves the call and the column is not assigned
\* (res \in {e} names the value of e, computed once)
ApplyNormalize(d, newcol, srccol) ==
  CHOOSE r \in
    { LET bad == {i \in 1..Len(res) : res[i].exc # ""}
      IN  IF bad # {}
            THEN [exc |-> res[CHOOSE i \in bad : \A j \in bad : i <= j].exc, df |-> d]
            ELSE [exc |-> "", df |-> WithColumn(d, newcol, [i \in 1..Len(res) |-> PyS(res[i].val)])] :
      res \in {MapNormalize(Cells(d, srccol))} } : TRUE

\* cell with the columns of the list cs converted by astype(str)
RECURSIVE StrCells(_, _)
StrCells(cell, cs) ==
  IF cs = <<>> THEN cell
  ELSE StrCells([cell EXCEPT ![Head(cs)] = PyS(PyStr(@))], Tail(cs))

RECURSIVE StrRows(_, _)
StrRows(rows, cs) ==
  IF rows = <<>> THEN <<>>
  ELSE <<[Head(rows) EXCEPT !.cell = StrCells(@, cs)]>> \o StrRows(Tail(rows), cs)

\* the columns present among a list of candidates, in the list's order
RECURSIVE PresentCols(_, _)
PresentCols(cands, cols) ==
  IF cands = <<>> THEN <<>>
  ELSE IF Head(cands) \in cols THEN <<Head(cands)>> \o PresentCols(Tail(cands), cols)
  ELSE PresentCols(Tail(cands), cols)

\* for col in cs: if col in df.columns: df[col] = df[col].astype(str)
AsTypeStr(d, cs) == [d EXCEPT !.rows = StrRows(@, PresentCols(cs, d.cols))]

\* df["Escola"].astype(str).str.strip().str.upper() == escola_up
SchoolMatches(row, escola_up) == Upper(Strip(PyStr(row.cell["Escola"]))) = escola_up

FilterSchool(d, escola_up) ==
  LET Keep(row) == SchoolMatches(row, escola_up)
  IN  [d EXCEPT !.rows = SelectSeq(@, Keep)]

\* order of two cells in sort_values / groupby: strings by str.__lt__,
\* missing values last
CellLess(a, b) ==
  IF NotNa(a) /\ NotNa(b) THEN StrLess(PyStr(a), PyStr(b)) ELSE NotNa(a) /\ ~NotNa(b)

CellSame(a, b) ==
  IF NotNa(a) /\ NotNa(b) THEN PyStr(a) = PyStr(b) ELSE ~NotNa(a) /\ ~NotNa(b)

\* lexicographic order of two rows on a list of key columns
RECURSIVE RowLess(_, _, _)
RowLess(r1, r2, keys) ==
  IF keys = <<>> THEN FALSE
  ELSE IF CellLess(r1.cell[Head(keys)], r2.cell[Head(keys)]) THEN TRUE
  ELSE IF CellLess(r2.cell[Head(keys)], r1.cell[Head(keys)]) THEN FALSE
  ELSE RowLess(r1, r2, Tail(keys))

SameKey(r1, r2, keys) == \A i \in 1..Len(keys) : CellSame(r1.cell[keys[i]], r2.cell[keys[i]])

\* insert a row after the rows that are not greater (stable)
RECURSIVE InsertRow(_, _, _)
InsertRow(sorted, row, keys) ==
  IF sorted = <<>> THEN <<row>>
  ELSE IF RowLess(row, Head(sorted), keys) THEN <<row>> \o sorted
  ELSE <<Head(sorted)>> \o InsertRow(Tail(sorted), row, keys)

\* the rows in key order, equal keys in their order of arrival
RECURSIVE SortRows(_, _)
SortRows(rows, keys) ==
  IF rows = <<>> THEN <<>>
  ELSE CHOOSE r \in {InsertRow(sorted, rows[Len(rows)], keys) :
                       sorted \in {SortRows(SubSeq(rows, 1, Len(rows) - 1), keys)}} : TRUE

\* df.sort_values(sort_cols)
SortValues(d, keys) == [d EXCEPT !.rows = SortRows(@, keys)]

\* the groups of a row sequence in the order their keys first occur, each
\* with its rows in sequence order
RECURSIVE GroupRows(_, _)
GroupRows(rows, keys) ==
  IF rows = <<>> THEN <<>>
  ELSE LET InGroup(row) == SameKey(row, Head(rows), keys)
           Others(row) == ~SameKey(row, Head(rows), keys)
       IN  CHOOSE g \in {<<SelectSeq(rows, InGroup)>> \o GroupRows(rest, keys) :
                            rest \in {SelectSeq(rows, Others)}} : TRUE

\* mutant: groupby with its default dropna=True loses the rows whose key has
\* a missing value
GroupBy_dropna(d, keys) ==
  LET Whole(row) == \A i \in 1..Len(keys) : NotNa(row.cell[keys[i]])
  IN  GroupRows(SelectSeq(d.rows, Whole), keys)

\* df.groupby(group_cols, dropna=False) on the sorted frame: the groups in
\* key order, each with its rows in frame order
GroupBy(d, keys) == GroupRows(d.rows, keys)

\* flowables of the story
Flowable(type, label, text, rows, n) ==
  [type |-> type, label |-> label, text |-> text, rows |-> rows, n |-> n]

Spacer == Flowable("Spacer", "", <<>>, <<>>, 0)

PageBreak == Flowable("PageBreak", "", <<>>, <<>>, 0)

Image == Flowable("Image", "logo", <<>>, <<>>, 0)

Paragraph(label, text) == Flowable("Paragraph", label, text, <<>>, 0)

\* Paragraph(f"Total de alunos na turma: {total}", style_bold_line)
TotalLine(n) == Flowable("Paragraph", "Total de alunos na turma", NatStr(n), <<>>, n)

Table(rows) == Flowable("Table", "", <<>>, rows, 0)

\* r.get(col, r.get(fallback, ""))
RowGet(row, cols, col, fallback) ==
  IF col \in cols THEN row.cell[col]
  ELSE IF fallback \in cols THEN row.cell[fallback]
  ELSE PyS(<<>>)

\* one table line: [id_aluno, inep, nome_cell, ""]
TableRow(row, cols) ==
  [ idx  |-> row.idx,
    id   |-> safe_str(RowGet(row, cols, "ID_norm", "ID Aluno")),
    inep |-> safe_str(RowGet(row, cols, "INEP_norm", "Codigo INEP (Aluno)")),
    nome |-> safe_str(RowGet(row, cols, "Nome", "Nome")) ]

HeaderField(gdf, cols, col) ==
  IF col \in cols THEN first_non_empty([i \in 1..Len(gdf) |-> gdf[i].cell[col]]) ELSE <<>>

OptionalLine(label, text) == IF text # <<>> THEN <<Paragraph(label, text)>> ELSE <<>>

\* mutant: the break is appended before every section, the first included
SectionBreak_always(gi) == <<Spacer, Paragraph("br", <<>>), Spacer, PageBreak>>

\* if gi > 0: Spacer, Paragraph("<br/>"), Spacer, PageBreak (gi counts from 1 here)
SectionBreak(gi) ==
  IF gi > 1 THEN <<Spacer, Paragraph("br", <<>>), Spacer, PageBreak>> ELSE <<>>

\* the flowables one iteration of the group loop appends
Section(gi, gdf, cols, escola_up, logo) ==
  SectionBreak(gi)
  \o (IF logo THEN <<Image, Spacer>> ELSE <<>>)
  \o <<Paragraph("LISTA DE ALUNOS POR TURMA", <<>>), Paragraph("Escola", escola_up)>>
  \o OptionalLine("Curso", HeaderField(gdf, cols, "Curso"))
  \o OptionalLine("Serie", HeaderField(gdf, cols, "Serie"))
  \o OptionalLine("Turma", HeaderField(gdf, cols, "Turma"))
  \o OptionalLine("Turno", HeaderField(gdf, cols, "Turno"))
  \o <<Paragraph("Emitido em", <<>>), Spacer>>
  \o <<Table([i \in 1..Len(gdf) |-> TableRow(gdf[i], cols)])>>
  \o <<TotalLine(Len(gdf)), Spacer>>

RECURSIVE Story(_, _, _, _, _)
Story(groups, gi, cols, escola_up, logo) ==
  IF gi > Len(groups) THEN <<>>
  ELSE Section(gi, groups[gi], cols, escola_up, logo)
         \o Story(groups, gi + 1, cols, escola_up, logo)

\* what a call returns or raises
EmptyBytes == [exc |-> "", bytes |-> "empty", story |-> <<>>]

Document(story) == [exc |-> "", bytes |-> "document", story |-> story]

Raised(e) == [exc |-> e, bytes |-> "", story |-> <<>>]

SortCandidates == <<"Curso", "Serie", "Turma", "Turno", "Nome">>

GroupCandidates == <<"Curso", "Serie", "Turma", "Turno">>

StrCandidates == <<"Curso", "Serie", "Turma", "Nome">>

StrCols == {StrCandidates[i] : i \in 1..Len(StrCandidates)}

\* ID_norm and INEP_norm, added to the caller's frame when absent
AddNormColumns(d) ==
  CHOOSE n2 \in
    { IF n1.exc = "" /\ "INEP_norm" \notin n1.df.cols /\ "Codigo INEP (Aluno)" \in n1.df.cols
        THEN ApplyNormalize(n1.df, "INEP_norm", "Codigo INEP (Aluno)")
        ELSE n1 :
      n1 \in { IF "ID_norm" \notin d.cols /\ "ID Aluno" \in d.cols
                 THEN ApplyNormalize(d, "ID_norm", "ID Aluno")
                 ELSE [exc |-> "", df |-> d] } } : TRUE

\* grouping and the story; callers is the caller's frame, which is the
\* frame at hand when shared is true
RenderGroups(sorted, callers, shared, escola_up, logo) ==
  LET some_group == PresentCols(GroupCandidates, sorted.cols) # <<>>
      group_cols == IF some_group THEN PresentCols(GroupCandidates, sorted.cols)
                    ELSE <<"_grp">>
  IN  CHOOSE r \in
        { CHOOSE q \in
            { [ret |-> Document(Story(grouped, 1, grouped_df.cols, escola_up, logo)),
               df  |-> IF shared THEN grouped_df ELSE callers] :
              grouped \in {GroupBy(grouped_df, group_cols)} } : TRUE :
          grouped_df \in { IF some_group THEN sorted
                           ELSE WithColumn(sorted, "_grp",
                                           [i \in 1..Len(sorted.rows) |-> PyS(<<"T", "U", "R", "M", "A">>)]) } } : TRUE

\* astype(str) and sort_values; without a school column (aliased) the frame
\* is the caller's object until sort_values makes a new one
SortAndRender(filtered, callers, aliased, escola_up, logo) ==
  CHOOSE r \in
    { LET sort_cols == PresentCols(SortCandidates, typed.cols)
      IN  CHOOSE q \in
            { RenderGroups(sorted, IF aliased THEN typed ELSE callers,
                           aliased /\ sort_cols = <<>>, escola_up, logo) :
              sorted \in {IF sort_cols # <<>> THEN SortValues(typed, sort_cols) ELSE typed} } : TRUE :
      typed \in {AsTypeStr(filtered, StrCandidates)} } : TRUE

\* the school filter and the early return of an empty selection
FilterAndRender(n, escola_up, logo) ==
  IF n.exc # "" THEN [ret |-> Raised(n.exc), df |-> n.df]
  ELSE
    LET aliased == "Escola" \notin n.df.cols
    IN  CHOOSE r \in
          { IF filtered.rows = <<>> THEN [ret |-> EmptyBytes, df |-> n.df]
            ELSE SortAndRender(filtered, n.df, aliased, escola_up, logo) :
            filtered \in {IF aliased THEN n.df ELSE FilterSchool(n.df, escola_up)} } : TRUE

\* the call: the value returned (or the exception raised) and the caller's
\* DataFrame object as the call leaves it
generate_lista_turmas_pdf(d, school, logo) ==
  IF d.none \/ d.rows = <<>> THEN [ret |-> EmptyBytes, df |-> d]
  ELSE CHOOSE r \in {FilterAndRender(n, Upper(safe_str(PyS(school))), logo) :
                       n \in {AddNormColumns(d)}} : TRUE

(* ------------------------ roster: state machine ----------------------- *)
RosterCols ==
  {"ID Aluno", "Codigo INEP (Aluno)", "Nome", "Escola", "Curso", "Serie", "Turma", "Turno"}

NormCols == {"ID_norm", "INEP_norm"}

RosterRow(id, nome, school, curso, serie, turma, turno) ==
  [c \in RosterCols \cup NormCols |->
     CASE c = "ID Aluno" -> id [] c = "Nome" -> nome [] c = "Escola" -> school
       [] c = "Curso" -> curso [] c = "Serie" -> serie [] c = "Turma" -> turma
       [] c = "Turno" -> turno
       [] c = "ID_norm" -> PyS(PyStr(id))
       [] c = "INEP_norm" -> PyNaN
       [] OTHER -> PyFloat(20, 0)]

\* enrolment rows of several students and schools
RosterRowPool ==
  { RosterRow(PyInt(1), PyS(<<"A", "n", "a">>), PyS(<<"A">>),
              PyS(<<"E", "F">>), PyInt(1), PyS(<<"A">>), PyS(<<"M">>)),
    RosterRow(PyFloat(20, 0), PyS(<<"B", "i", "a">>), PyS(<<"a", " ">>),
              PyS(<<"E", "F">>), PyInt(1), PyS(<<"A">>), PyS(<<"M">>)),
    RosterRow(PyInt(10), PyS(<<"A", "n", "a">>), PyS(<<"A">>),
              PyS(<<"E", "F">>), PyInt(1), PyS(<<"A">>), PyS(<<"M">>)),
    RosterRow(PyInt(3), PyNaN, PyS(<<"A">>),
              PyS(<<"E", "F">>), PyInt(1), PyS(<<"B">>), PyNaN),
    RosterRow(PyInt(4), PyS(<<"E", "b", "a">>), PyS(<<"A">>),
              PyNaN, PyInt(2), PyS(<<"A">>), PyNone),
    RosterRow(PyInt(5), PyS(<<"A", "n", "a">>), PyS(<<"B">>),
              PyS(<<"E", "F">>), PyInt(1), PyS(<<"A">>), PyS(<<"T">>)),
    RosterRow(PyS(<<"1", "e", "9", "9", "9", "9", "9", "9", "9", "9", "9", "9", "9", "9", "9", "9", "9">>),
              PyS(<<"B", "i", "a">>), PyS(<<"B">>),
              PyS(<<"E", "F">>), PyInt(1), PyS(<<"A">>), PyS(<<"T">>)) }

\* the column sets a caller may pass
RosterColSets ==
  { RosterCols, RosterCols \cup NormCols, RosterCols \ {"Escola"},
    {"ID Aluno", "Nome", "Escola"}, {"ID Aluno", "Escola"}, {"ID Aluno"} }

\* pd.DataFrame(rows)[cols] with a RangeIndex
FrameOf(cols, rows) ==
  DataFrame(cols, [i \in 1..Len(rows) |->
                     [idx |-> i, cell |-> [c \in cols |-> rows[i][c]]]])

RosterFrames ==
  {NoneDf} \cup
  {FrameOf(cols, rows) : cols \in RosterColSets, rows \in SeqsUpTo(RosterRowPool, MaxRosterRows)}

TargetSchools == {<<"a">>, <<" ", "A", " ">>, <<"C">>}

NoPdf == <<>>

InitRoster ==
  /\ df \in RosterFrames
  /\ escola \in TargetSchools
  /\ pdf = NoPdf
  /\ raw = PyNone /\ out = NoResult /\ prev = <<>> /\ op = "roster"
  /\ IdleAggregator /\ IdleLoader /\ IdleSession

\* pdf_bytes = generate_lista_turmas_pdf(df, escola=escola, emitted_dt=..., logo_path=...)
GenerateListaTurmasPdf ==
  /\ pdf = NoPdf
  /\ \E logo \in BOOLEAN :
       LET call == generate_lista_turmas_pdf(df, escola, logo)
       IN  pdf' = <<call.ret>> /\ df' = call.df
  /\ UNCHANGED escola

NextRoster ==
  /\ GenerateListaTurmasPdf
  /\ UNCHANGED <<raw, out, prev, op, df_aluno, at, cert, src_df, loaded>>
  /\ UNCHANGED <<usuarios_csv, session_state, page, auth>>

SpecRoster == InitRoster /\ [][NextRoster]_vars

(* =============== app.py: loading and checking a row set =============== *)
\* required (accents dropped from the names)
RequiredCols ==
  {"ID Aluno", "Codigo INEP (Aluno)", "Nome", "Escola", "Turma", "Serie",
   "Curso", "Data da Matricula", "Ano", "Situacao da Matricula", "Turno", "Nome da mae"}

\* mutant: only the identifier columns are looked for
MissingCols_ids(d) == {"ID Aluno", "Codigo INEP (Aluno)"} \ d.cols

\* missing = [c for c in required if c not in df.columns]
MissingCols(d) == RequiredCols \ d.cols

\* df["Escola_norm"] = df["Escola"].astype(str).str.strip().str.upper()
\* df["Nome_norm"] = df["Nome"].astype(str).str.strip().str.upper()
AddNameColumns(d) ==
  CHOOSE n \in
    { WithColumn(e, "Nome_norm",
                 [i \in 1..Len(e.rows) |-> PyS(Upper(Strip(PyStr(e.rows[i].cell["Nome"]))))]) :
      e \in { WithColumn(d, "Escola_norm",
                         [i \in 1..Len(d.rows) |-> PyS(Upper(Strip(PyStr(d.rows[i].cell["Escola"]))))]) } } : TRUE

\* df["ID_norm"] = df["ID Aluno"].apply(normalize_intlike)
\* df["INEP_norm"] = df["Codigo INEP (Aluno)"].apply(normalize_intlike)
AddNumberColumns(d) ==
  CHOOSE i2 \in
    { IF i1.exc = "" THEN ApplyNormalize(i1.df, "INEP_norm", "Codigo INEP (Aluno)") ELSE i1 :
      i1 \in {ApplyNormalize(d, "ID_norm", "ID Aluno")} } : TRUE

\* the four derived columns, each assigned on the frame the one before left
AddDerivedColumns(d) ==
  CHOOSE r \in {AddNumberColumns(n) : n \in {AddNameColumns(d)}} : TRUE

\* outcome of a call: the exception raised, or the row set returned
Outcome(fn, exc, d) == [fn |-> fn, exc |-> exc, df |-> d]

prepare_matriculas_df(d) ==
  IF d.none \/ d.rows = <<>> THEN Outcome("prepare_matriculas_df", "", d)
  ELSE IF MissingCols(d) # {} THEN Outcome("prepare_matriculas_df", "ValueError", d)
  ELSE LET r == AddDerivedColumns(d) IN Outcome("prepare_matriculas_df", r.exc, r.df)

load_matriculas(d) ==
  IF MissingCols(d) # {} THEN Outcome("load_matriculas", "ValueError", d)
  ELSE LET r == AddDerivedColumns(d) IN Outcome("load_matriculas", r.exc, r.df)

(* ------------------------ loader: state machine ----------------------- *)
SourceRow(id, nome, school) ==
  [c \in RequiredCols \cup {"nome"} |->
     CASE c = "ID Aluno" -> id [] c = "Nome" -> nome [] c = "nome" -> nome
       [] c = "Escola" -> school [] c = "Ano" -> PyInt(2024)
       [] c = "Codigo INEP (Aluno)" -> PyFloat(20, 0)
       [] c = "Data da Matricula" -> PyInt(45292)
       [] c = "Nome da mae" -> PyNaN
       [] OTHER -> PyS(<<"A">>)]

SourceRowPool ==
  { SourceRow(PyFloat(1, 0), PyS(<<"A", "n", "a">>), PyS(<<" ", "a">>)),
    SourceRow(PyS(<<"2", "0", "-", "1">>), PyNaN, PyS(<<"B">>)) }

\* column sets with up to MaxMissing required columns absent; a header in the
\* wrong case ("nome") does not stand for the required one
SourceColSets ==
  {(RequiredCols \ miss) \cup extra :
     miss \in {m \in SUBSET RequiredCols : Cardinality(m) <= MaxMissing},
     extra \in {{}, {"nome"}}}

SourceFrames ==
  {NoneDf} \cup
  {FrameOf(cols, rows) : cols \in SourceColSets, rows \in SeqsUpTo(SourceRowPool, MaxSourceRows)}

NotLoaded == <<>>

InitLoad ==
  /\ src_df \in SourceFrames
  /\ loaded = NotLoaded
  /\ raw = PyNone /\ out = NoResult /\ prev = <<>> /\ op = "loader"
  /\ IdleAggregator /\ IdleRoster /\ IdleSession

\* api_search / api_student: prepare_matriculas_df(pd.DataFrame(rows))
PrepareMatriculasDf ==
  /\ loaded = NotLoaded
  /\ loaded' = <<prepare_matriculas_df(src_df)>>
  /\ UNCHANGED src_df

\* main(): dfm = load_matriculas(), the frame read by pd.read_csv
LoadMatriculas ==
  /\ loaded = NotLoaded /\ ~src_df.none
  /\ loaded' = <<load_matriculas(src_df)>>
  /\ UNCHANGED src_df

NextLoad ==
  /\ (PrepareMatriculasDf \/ LoadMatriculas)
  /\ UNCHANGED <<raw, out, prev, op, df_aluno, at, cert, df, escola, pdf>>
  /\ UNCHANGED <<usuarios_csv, session_state, page, auth>>

SpecLoad == InitLoad /\ [][NextLoad]_vars

(* ===================== app.py: login and session ====================== *)
\* one line of usuarios.csv (dtype=str, keep_default_na=False: always text)
UserRow(usuario, senha, school) == [Usuario |-> usuario, Senha |-> senha, Escola |-> school]

\* load_usuarios(): the file must exist; df["Escola"] is stripped
load_usuarios(csv) ==
  IF ~csv.exists THEN [exc |-> "FileNotFoundError", rows |-> <<>>]
  ELSE [exc |-> "",
        rows |-> [i \in 1..Len(csv.rows) |-> [csv.rows[i] EXCEPT !.Escola = Strip(@)]]]

\* is_admin_user(usuario)
is_admin_user(usuario) == Upper(Strip(usuario)) = <<"S", "M", "E">>

\* mutant: the stored password is not compared
PasswordMatches_any(s_in, row) == TRUE

\* not (s_in != senha_armazenada)
PasswordMatches(s_in, row) == s_in = Strip(row.Senha)

\* what auth_user returns: (False, {}) or (True, info); row is the position
\* of the credentials row it took, 0 when none
AuthResult(exc, success, usuario, school, admin, row) ==
  [exc |-> exc, success |-> success, usuario |-> usuario, escola |-> school,
   is_admin |-> admin, row |-> row]

AuthDenied == AuthResult("", FALSE, <<>>, <<>>, FALSE, 0)

auth_user(csv, usuario, senha_digitada) ==
  LET dfu  == load_usuarios(csv)
      u_in == Strip(usuario)
      s_in == Strip(senha_digitada)
      hits == {i \in 1..Len(dfu.rows) : Strip(dfu.rows[i].Usuario) = u_in}
      first == CHOOSE i \in hits : \A j \in hits : i <= j
  IN  IF dfu.exc # "" THEN AuthResult(dfu.exc, FALSE, <<>>, <<>>, FALSE, 0)
      ELSE IF u_in = <<>> \/ s_in = <<>> THEN AuthDenied
      ELSE IF hits = {} THEN AuthDenied
      ELSE IF ~PasswordMatches(s_in, dfu.rows[first]) THEN AuthDenied
      ELSE AuthResult("", TRUE, u_in, Strip(dfu.rows[first].Escola), is_admin_user(u_in), first)

\* the keys logout() deletes
SessionKeys == {"auth_ok", "usuario", "escola", "is_admin"}

\* st.session_state.get(k, default)
SessionGet(s, k, default) == IF k \in DOMAIN s THEN s[k] ELSE default

\* if "auth_ok" not in st.session_state: st.session_state["auth_ok"] = False
WithAuthOk(s) == IF "auth_ok" \in DOMAIN s THEN s ELSE ("auth_ok" :> FALSE) @@ s

\* for k in (...): if k in st.session_state: del st.session_state[k]
logout(s) == [k \in (DOMAIN s) \ SessionKeys |-> s[k]]

\* a run that stopped at the login form
LoginPage == [view |-> "login", usuario |-> <<>>, escola |-> <<>>, is_admin |-> FALSE]

\* a run that went past the login form, with the school it works on
AppPage(usuario, school, admin) ==
  [view |-> "app", usuario |-> usuario, escola |-> school, is_admin |-> admin]

(* ------------------------ session: state machine ---------------------- *)
UserRowPool ==
  { UserRow(<<"a", "n", "a">>, <<"x">>, <<"A", " ">>),
    UserRow(<<" ", "a", "n", "a", " ">>, <<"y">>, <<"B">>),
    UserRow(<<"s", "m", "e">>, <<"x", " ">>, <<"S", "M", "E">>),
    UserRow(<<>>, <<>>, <<"C">>),
    UserRow(<<"b", "i", "a">>, <<" ", "y">>, <<"B">>) }

CredentialFiles ==
  {[exists |-> FALSE, rows |-> <<>>]}
    \cup {[exists |-> TRUE, rows |-> rows] : rows \in SeqsUpTo(UserRowPool, MaxUsers)}

\* what is typed into the login form
TypedUsers == {<<"a", "n", "a">>, <<" ", "a", "n", "a">>, <<"s", "m", "e">>, <<"b", "i", "a">>, <<>>, <<" ">>}

TypedPasswords == {<<"x">>, <<"y", " ">>, <<"z">>, <<>>}

\* the schools an administrator can pick in the selectbox
Escolas == {<<"A">>, <<"B">>}

InitSession ==
  /\ usuarios_csv \in CredentialFiles
  /\ session_state = EmptySession /\ page = NoPage /\ auth = NoAuth
  /\ raw = PyNone /\ out = NoResult /\ prev = <<>> /\ op = "session"
  /\ IdleAggregator /\ IdleRoster /\ IdleLoader

\* main() run without a form submission: the login form and st.stop(), or
\* the part past it
RunMain ==
  LET s1 == WithAuthOk(session_state)
      usuario == Strip(SessionGet(s1, "usuario", <<>>))
      is_admin == SessionGet(s1, "is_admin", FALSE)
  IN  /\ session_state' = s1
      /\ IF ~s1["auth_ok"] THEN page' = LoginPage
         ELSE IF is_admin
           THEN \E escola_sel \in Escolas : page' = AppPage(usuario, Strip(escola_sel), TRUE)
         ELSE page' = AppPage(usuario, Strip(SessionGet(s1, "escola", <<>>)), FALSE)
      /\ UNCHANGED <<usuarios_csv, auth>>

\* main() run with the form submitted ("Entrar"): auth_user, then the four
\* keys and st.rerun(), or the error message and st.stop()
SubmitLogin ==
  /\ page.view = "login"
  /\ \E usuario \in TypedUsers, senha \in TypedPasswords :
       LET s1 == WithAuthOk(session_state)
           r  == auth_user(usuarios_csv, usuario, senha)
       IN  /\ ~s1["auth_ok"]
           /\ auth' = [called |-> TRUE, usuario |-> usuario, senha |-> senha,
                       success |-> r.success, row |-> r.row]
           /\ IF r.exc = "" /\ r.success
                THEN /\ session_state' =
                          ("auth_ok" :> TRUE) @@ ("usuario" :> r.usuario)
                            @@ ("escola" :> r.escola) @@ ("is_admin" :> r.is_admin) @@ s1
                     /\ page' = [NoPage EXCEPT !.view = "rerun"]
                ELSE /\ session_state' = s1
                     /\ page' = LoginPage
  /\ UNCHANGED usuarios_csv

\* st.button("Sair", on_click=logout): the callback, before the next run
Logout ==
  /\ page.view = "app"
  /\ session_state' = logout(session_state)
  /\ page' = [NoPage EXCEPT !.view = "logout"]
  /\ UNCHANGED <<usuarios_csv, auth>>

NextSession ==
  /\ (RunMain \/ SubmitLogin \/ Logout)
  /\ UNCHANGED <<raw, out, prev, op, df_aluno, at, cert, df, escola, pdf, src_df, loaded>>

SpecSession == InitSession /\ [][NextSession]_vars

(* ======================= claims on the normaliser ===================== *)
ExponentForm(s) == FirstOf(Lower(s), {"e"}) # 0

TrimmedRaw == Strip(PyStr(raw))

IsPlaceholderRaw == raw.kind = "none" \/ TrimmedRaw = <<>> \/ Lower(TrimmedRaw) \in Placeholders

\* C1: normalize_intlike is idempotent: normalising the normalised identifier
\* (as the certificate does with the stored ID_norm) gives the same string.
C1_Idempotent == op = "printed" => (out.exc = "" /\ out.val = prev)

IsDateAfterEpoch(s, k) ==
  /\ FullMatchIsoDate(s)
  /\ LET y == DigitsValue(SubSeq(s, 1, 4), 10000)
         m == DigitsValue(SubSeq(s, 6, 7), 100)
         d == DigitsValue(SubSeq(s, 9, 10), 100)
     IN  /\ m \in 1..12 /\ d \in 1..DaysInMonth(y, m)
         /\ ToOrdinal(y, m, d) = ToOrdinal(1899, 12, 30) + k

\* the raw value is an int, a float, or a string matching digits[.digits]
NumericLooking ==
  \/ raw.kind \in {"int", "float", "inf"}
  \/ raw.kind = "str" /\ FullMatchNumber(TrimmedRaw)

\* int(value) of a numeric-looking raw value, saturated at 10^7
IntOfRaw ==
  IF raw.kind \in {"int", "float"} THEN raw.n
  ELSE LET dot == FirstOf(TrimmedRaw, {"."})
       IN  DigitsValue(IF dot = 0 THEN TrimmedRaw ELSE SubSeq(TrimmedRaw, 1, dot - 1), 10000000)

\* the last serial whose date has a four-digit year: 9999-12-31
LastSerial == ToOrdinal(9999, 12, 31) - ToOrdinal(1899, 12, 30)

\* C3 (as claimed): a numeric-looking value >= 20000 gives the date int(value)
\* days after 1899-12-30; every other non-placeholder value gives the trimmed
\* raw string.
C3_SerialToDate ==
  (op = "excel_serial_to_iso" /\ ~IsPlaceholderRaw) =>
     /\ out.exc = ""
     /\ IF NumericLooking /\ (raw.kind = "inf" \/ IntOfRaw >= 20000)
          THEN raw.kind # "inf" /\ IsDateAfterEpoch(out.val, IntOfRaw)
          ELSE out.val = TrimmedRaw

\* C3 (amended): a numeric-looking value from 20000 up to 2958465 (9999-12-31)
\* gives the date int(value) days after 1899-12-30, so 45292 gives
\* "2024-01-01"; a numeric value beyond the last date datetime can hold, and
\* every other non-placeholder value, gives the trimmed raw string.
C3_SerialToDateInRange ==
  (op = "excel_serial_to_iso" /\ ~IsPlaceholderRaw) =>
     /\ out.exc = ""
     /\ IF NumericLooking /\ raw.kind # "inf" /\ IntOfRaw >= 20000 /\ IntOfRaw <= LastSerial
          THEN IsDateAfterEpoch(out.val, IntOfRaw)
          ELSE out.val = TrimmedRaw
     /\ raw = PyInt(45292) => out.val = <<"2", "0", "2", "4", "-", "0", "1", "-", "0", "1">>

C3_Witness ==
  /\ op = "excel_serial_to_iso" /\ raw.kind = "str"
  /\ TrimmedRaw = <<"4", "5", "2", "9", "2", ".", "5">>
  /\ out.val = <<"2", "0", "2", "4", "-", "0", "1", "-", "0", "1">>

\* C10: normalize_intlike, excel_serial_to_iso and format_date_br never raise:
\* for every input each returns a string.
C10_NeverRaises ==
  op \in {"normalize_intlike", "printed", "excel_serial_to_iso", "format_date_br"}
    => out.exc = ""

\* C11: excel_serial_to_iso is idempotent: applied to its own result it
\* returns that result, so an ISO date, a trimmed text and the empty string
\* all come back unchanged.
C11_DateIdempotent == op = "iso_again" => (out.exc = "" /\ out.val = prev)

\* a serial was turned into an ISO date, and the date went through again
C11_Witness ==
  /\ op = "iso_again" /\ NumericLooking /\ raw.kind # "inf"
  /\ IntOfRaw >= SerialFloor /\ IntOfRaw <= LastSerial
  /\ FullMatchIsoDate(prev) /\ out.val = prev

(* ======================= claims on the aggregator ===================== *)
Built == at # NoAtestado

\* the non-null cells of a column, in row order
Present(col) == DropNa(Column(df_aluno, col))

\* the valid ISO dates (YYYY-MM-DD) among the canonical forms of the raw dates
ValidIsoDates ==
  {s \in {excel_serial_to_iso(v).val : v \in SetOf(Present("Data da Matricula"))} :
     FullMatchIsoDate(s)}

\* C4: pick_data_matricula returns the smallest valid ISO date among the
\* canonical forms of the raw values when there is one, even when other rows
\* hold non-ISO text; otherwise the first raw value verbatim, or "" without
\* values.
C4_EarliestValidIso ==
  Built =>
    IF ValidIsoDates # {}
      THEN /\ at[1].data_matricula \in ValidIsoDates
           /\ \A s \in ValidIsoDates : ~StrLess(s, at[1].data_matricula)
      ELSE IF Present("Data da Matricula") = <<>> THEN at[1].data_matricula = <<>>
      ELSE at[1].data_matricula = PyStr(Present("Data da Matricula")[1])

\* the distinct trimmed non-empty values of a column
DistinctTrimmed(col) ==
  {Strip(PyStr(v)) : v \in SetOf(Present(col))} \ {<<>>}

\* s lists every value of S exactly once, in increasing order, joined by ", "
IsSortedJoinOf(s, S) ==
  \E q \in [1..Cardinality(S) -> S] :
     /\ \A i, j \in 1..Cardinality(S) : i < j => StrLess(q[i], q[j])
     /\ {q[i] : i \in 1..Cardinality(S)} = S
     /\ s = Join(<<",", " ">>, q)

\* s is the first cell of the column, in row order, that is non-empty after
\* trimming, or "" if there is none
IsFirstNonEmpty(s, col) ==
  LET cells == Present(col)
      idx == {i \in 1..Len(cells) : Strip(PyStr(cells[i])) # <<>>}
  IN  IF idx = {} THEN s = <<>>
      ELSE \E i \in idx : (\A j \in idx : i <= j) /\ s = Strip(PyStr(cells[i]))

\* C5: build_atestado_data gives, for turma, serie, curso and turno, the
\* distinct trimmed non-empty values of the column, each once, sorted and
\* joined with ", "; name and mother's name are the first value in row order
\* that is non-empty after trimming, or "".
C5_AggregateFields ==
  Built =>
    /\ IsSortedJoinOf(at[1].turma, DistinctTrimmed("Turma"))
    /\ IsSortedJoinOf(at[1].serie, DistinctTrimmed("Serie"))
    /\ IsSortedJoinOf(at[1].curso, DistinctTrimmed("Curso"))
    /\ IsSortedJoinOf(at[1].turno, DistinctTrimmed("Turno"))
    /\ IsFirstNonEmpty(at[1].nome, "Nome")
    /\ IsFirstNonEmpty(at[1].nome_mae, "Nome da mae")

\* three rows of one student, two of them in the same turma, the first
\* without a name
C5_Witness ==
  /\ Built /\ Len(df_aluno) = 3
  /\ ~NotNa(df_aluno[1]["Nome"])
  /\ df_aluno[2]["Turma"] = PyS(<<"B">>) /\ df_aluno[3]["Turma"] = PyS(<<"B">>)
  /\ at[1].turma = <<"A", ",", " ", "B">>
  /\ at[1].nome = <<"A", "n", "a">>

(* ========================= claims on the loader ======================= *)
\* a required column, under its exact name, is absent from the row set
SomeRequiredAbsent == \E c \in RequiredCols : c \notin src_df.cols

Rendered == pdf # NoPdf

\* the rows of the caller's frame whose school, trimmed and compared without
\* case, is the target school
MatchingRows ==
  IF df.none \/ "Escola" \notin df.cols THEN {}
  ELSE {i \in 1..Len(df.rows) :
          Upper(Strip(PyStr(df.rows[i].cell["Escola"]))) = Upper(Strip(escola))}

\* C7: generate_lista_turmas_pdf returns zero bytes, without raising, whenever
\* the row set is None or empty or no row's school equals the target school,
\* and returns a document only when at least one row matches.
C7_EmptyWithoutMatch ==
  Rendered =>
    /\ MatchingRows = {} => (pdf[1].exc = "" /\ pdf[1].bytes = "empty")
    /\ pdf[1].bytes = "document" => MatchingRows # {}

\* the rows the sections are made of: the matching rows, or every row when
\* the frame has no school column
FilteredRows ==
  IF "Escola" \in df.cols THEN MatchingRows ELSE 1..Len(df.rows)

Tables == {k \in 1..Len(pdf[1].story) : pdf[1].story[k].type = "Table"}

Totals ==
  {k \in 1..Len(pdf[1].story) : pdf[1].story[k].label = "Total de alunos na turma"}

\* (course, grade, class, shift) of a row, over the key columns the frame
\* has: course, grade and class as text, a missing shift as a value of its own
ClassKey(i) ==
  [c \in {"Curso", "Serie", "Turma", "Turno"} \cap df.cols |->
     IF c = "Turno" /\ ~NotNa(df.rows[i].cell[c]) THEN <<"?", "?">>
     ELSE PyStr(df.rows[i].cell[c])]

RECURSIVE SumTotals(_)
SumTotals(story) ==
  IF story = <<>> THEN 0
  ELSE (IF Head(story).label = "Total de alunos na turma" THEN Head(story).n ELSE 0)
         + SumTotals(Tail(story))

\* C8: the sections partition the school-filtered rows by (course, grade,
\* class, shift): every filtered row, also one with a missing key field, is
\* in exactly one section, there is one section per distinct key, and the
\* totals of the sections sum to the number of filtered rows.
C8_GroupsPartition ==
  (Rendered /\ pdf[1].bytes = "document") =>
    LET story == pdf[1].story
    IN  /\ \A i \in FilteredRows :
             Cardinality({<<k, j>> \in Tables \X (1..Len(df.rows)) :
                            j <= Len(story[k].rows) /\ story[k].rows[j].idx = i}) = 1
        /\ \A k \in Tables : \A j \in 1..Len(story[k].rows) :
             /\ story[k].rows[j].idx \in FilteredRows
             /\ ClassKey(story[k].rows[j].idx) = ClassKey(story[k].rows[1].idx)
        /\ Cardinality(Tables) = Cardinality({ClassKey(i) : i \in FilteredRows})
        /\ Cardinality(Totals) = Cardinality(Tables)
        /\ \A k \in Tables : story[k + 1].n = Len(story[k].rows)
        /\ SumTotals(story) = Cardinality(FilteredRows)

\* three matching rows in two classes, one of them without a shift
C8_Witness ==
  /\ Rendered /\ pdf[1].bytes = "document"
  /\ "Escola" \in df.cols /\ Cardinality(MatchingRows) = 3
  /\ Cardinality(Tables) = 2
  /\ \E i \in MatchingRows : ~NotNa(df.rows[i].cell["Turno"])

\* C9: a field that is null, empty or a placeholder ("nan" / "none") comes out
\* as the empty string: safe_first, agg_unique, the certificate body and the
\* roster's header lines and name cells never show "nan" or "none".
C9_NoPlaceholderText ==
  /\ Built =>
       \A s \in {at[1].nome, at[1].nome_mae, at[1].turma, at[1].serie,
                 at[1].curso, at[1].turno} : Lower(s) \notin Placeholders
  /\ cert # <<>> =>
       \A s \in {cert[1].nome_up, cert[1].mae_up, cert[1].turma, cert[1].serie,
                 cert[1].curso, cert[1].turno} : Lower(s) \notin Placeholders
  /\ (Rendered /\ pdf[1].bytes = "document") =>
       \A k \in 1..Len(pdf[1].story) :
          /\ pdf[1].story[k].label \in {"Curso", "Serie", "Turma", "Turno"}
               => Lower(pdf[1].story[k].text) \notin Placeholders
          /\ \A j \in 1..Len(pdf[1].story[k].rows) :
               Lower(pdf[1].story[k].rows[j].nome) \notin Placeholders

\* two identifiers in order: as texts, or as numbers when both are digits
InIdOrder(a, b) ==
  \/ ~StrLess(b, a)
  \/ /\ a # <<>> /\ b # <<>> /\ AllDigits(a) /\ AllDigits(b)
     /\ DigitsValue(a, 10000000) <= DigitsValue(b, 10000000)

\* C12 (as claimed): in every table of the roster the rows are in the order
\* of the printed name and, where two names are equal, in the order of the
\* printed identifier.
C12_SortedByNameThenId ==
  Rendered =>
    \A k \in Tables :
      LET rows == pdf[1].story[k].rows
      IN  \A j \in 1..(Len(rows) - 1) :
            /\ ~StrLess(rows[j + 1].nome, rows[j].nome)
            /\ rows[j + 1].nome = rows[j].nome => InIdOrder(rows[j].id, rows[j + 1].id)

PageBreaks == {k \in 1..Len(pdf[1].story) : pdf[1].story[k].type = "PageBreak"}

\* the first flowable of a section: the logo when there is one, else the title
IsSectionStart(k) ==
  LET f == pdf[1].story[k]
      has_logo == \E j \in 1..Len(pdf[1].story) : pdf[1].story[j].type = "Image"
  IN  IF has_logo THEN f.type = "Image"
      ELSE f.type = "Paragraph" /\ f.label = "LISTA DE ALUNOS POR TURMA"

\* C13: a story of n >= 1 class groups holds exactly n - 1 page breaks; each
\* is directly followed by the first flowable of a section other than the
\* first, no two are adjacent, and nothing of the last section is followed
\* by a break, so the story does not end with one.
C13_PageBreaks ==
  (Rendered /\ Tables # {}) =>
    LET story == pdf[1].story
    IN  /\ Cardinality(PageBreaks) = Cardinality(Tables) - 1
        /\ IsSectionStart(1)
        /\ \A k \in PageBreaks :
             /\ k < Len(story) /\ IsSectionStart(k + 1)
             /\ (k + 1) \notin PageBreaks
             /\ \E a \in Tables : a < k
             /\ \E b \in Tables : b > k
        /\ \A a, b \in Tables :
             a < b => \E k \in PageBreaks : a < k /\ k < b
        /\ story[Len(story)].type # "PageBreak"

\* three class groups, with a logo: two page breaks
C13_Witness ==
  /\ Rendered /\ Cardinality(Tables) = 3 /\ Cardinality(PageBreaks) = 2
  /\ \E j \in 1..Len(pdf[1].story) : pdf[1].story[j].type = "Image"

(* ===================== claims on the certificate ====================== *)
\* C14 (as claimed): every line drawn in the right-aligned block (phone,
\* academic year, national school id, e-mail) has a value that is not empty
\* after trimming, and the k-th drawn line (k = 0, 1, ...) lies k line gaps
\* below the top of the block.
C14_RightBlock ==
  cert # <<>> =>
    LET block == cert[2].right_block
    IN  \A k \in 1..Len(block) :
          /\ Strip(block[k].text) # <<>>
          /\ block[k].y = RightBlockTop + (k - 1) * RightBlockGap

(* =================== claims on the roster's caller ==================== *)
\* C15 (as claimed): generate_lista_turmas_pdf leaves the caller's row set as
\* it was: the same columns and, row by row, the same cell values after the
\* call as before it.
C15_CallerFrameUnchanged ==
  [][ /\ df'.cols = df.cols
      /\ Len(df'.rows) = Len(df.rows)
      /\ \A i \in 1..Len(df.rows) : df'.rows[i].cell = df.rows[i].cell ]_vars

(* ======================== claims on the session ======================= *)
AuthOk == "auth_ok" \in DOMAIN session_state /\ session_state["auth_ok"] = TRUE

\* the credentials rows whose trimmed user name is the trimmed name typed
RowsOfTypedUser ==
  {i \in 1..Len(usuarios_csv.rows) :
     Strip(usuarios_csv.rows[i].Usuario) = Strip(auth.usuario)}

\* the last auth_user call had a non-empty trimmed name and password, equal
\* to the trimmed name and password of one credentials row
TypedMatchesARow ==
  /\ auth.called /\ auth.success
  /\ Strip(auth.usuario) # <<>> /\ Strip(auth.senha) # <<>>
  /\ \E i \in RowsOfTypedUser : Strip(usuarios_csv.rows[i].Senha) = Strip(auth.senha)

\* C16: the part of main() past the login form is reached only while auth_ok
\* is true; auth_ok is true only after an auth_user call whose trimmed user
\* name and password are non-empty and equal those of a credentials row;
\* after logout() none of auth_ok, usuario, escola, is_admin is present and
\* the next run shows the login form; a non-admin session works on the
\* school of the credentials row matched at login.
C16_SessionGuard ==
  /\ [](page.view = "app" => AuthOk)
  /\ [](AuthOk => TypedMatchesARow)
  /\ [][(~AuthOk /\ AuthOk') => (page.view = "login" /\ auth'.called /\ auth'.success)]_vars
  /\ [](page.view = "logout" => DOMAIN session_state \cap SessionKeys = {})
  /\ [][page.view = "logout" => page'.view = "login"]_vars
  /\ []((page.view = "app" /\ ~page.is_admin) =>
          /\ auth.row \in RowsOfTypedUser
          /\ \A j \in RowsOfTypedUser : auth.row <= j
          /\ page.escola = Strip(usuarios_csv.rows[auth.row].Escola)
          /\ page.escola = Strip(session_state["escola"]))

\* a non-admin logged in with a padded name, against a file where a later
\* row has the same name, and the page past the login form was shown
C16_Witness ==
  /\ page.view = "app" /\ ~page.is_admin /\ AuthOk
  /\ auth.usuario = <<" ", "a", "n", "a">> /\ auth.senha = <<"y", " ">>
  /\ Cardinality(RowsOfTypedUser) = 2
  /\ page.escola = <<"B">>

====
